---- MODULE Spec2Model ----
(***************************************************************************)
(* ToyWebAuthN: the Flask entry points of WebAuthnApp, the registration    *)
(* and authentication ceremonies behind them, the relying-party origin     *)
(* check, and the MongoDB credentials collection they read and write.      *)
(*                                                                         *)
(* The Flask session is the per-client mapping the handlers read and       *)
(* write (session[...] = ..., session.pop, session.get, session.clear).    *)
(* The credentials collection is a sequence of documents in insertion      *)
(* order; the code creates no unique index on it.                          *)
(* The Flask server handles requests in concurrent threads, so             *)
(* authenticate-complete is split at its two store calls: find_one (with   *)
(* all verification) and update_one.                                       *)
(***************************************************************************)
EXTENDS Integers, Sequences, FiniteSets, TLC

(***************************************************************************)
(* Bounds of the model.                                                    *)
(***************************************************************************)
MaxChal == 3        \* challenges issued by begin calls in one behaviour
MaxDocs == 2        \* documents in the credentials collection
MaxCounter == 2     \* largest signature counter an authenticator reports
MaxElapsed == 2     \* timeout periods counted after a begin call
MaxKeyLen == 2      \* bytes in a short key coordinate or modulus

Sessions == {"s1"}
Threads == {"t1", "t2"}
Users == {"alice", "bob"}
CredIds == {"cid1", "cid2"}
Keys == {"k1", "k2"}
DeviceIps == {"localhost", "192.168.1.5"}

VARIABLES
    device_ip,    \* what get_device_ip() returns on this host
    db,           \* db.credentials: sequence of documents, insertion order
    session,      \* Flask session of every client
    nextChal,     \* source of fresh random challenges
    thr,          \* requests between their store calls
    last,         \* the route that answered last, and its response
    elapsed,      \* wall-clock time since the last ceremony state was stored,
                  \* in whole timeout periods; no handler reads it
    manager,      \* the WebAuthnManager: its origins list and relying-party id
    checked,      \* the last call of manager.verify_origin and what it returned
    userIds,      \* user handles, followed in SpecHandle: the user.id of the
                  \* options last sent, and the userId of each document of
                  \* db, by position
    cose,         \* a public key on its way through the store, followed in
                  \* SpecKey: the key registered, the bytes stored for it
                  \* and the key read back
    boot          \* the start of the server, followed in SpecMain: the
                  \* certificate directory, where main() stands, what
                  \* check_certificates returned, the exit status

vars == <<device_ip, db, session, nextChal, thr, last, elapsed, manager, checked,
          userIds, cose, boot>>

(***************************************************************************)
(* Ceremony state carried in the session.                                  *)
(***************************************************************************)
\* no entry under the key (session.pop raises KeyError)
Absent == [kind |-> "absent", challenge |-> 0]
\* the int 400 that authenticate_begin stores when begin() returned an error pair
Int400 == [kind |-> "int", challenge |-> 0]
\* the dict Fido2Server.register_begin / authenticate_begin return as state
StateDict(c) == [kind |-> "dict", challenge |-> c]

EmptySession == [register_state |-> Absent, auth_state |-> Absent, username |-> "None"]

(***************************************************************************)
(* Relying party: WebAuthnManager.__init__ and verify_origin.              *)
(***************************************************************************)
\* the text scheme://host[:port]rest by its parts; rest is the path, query
\* or fragment, which an origin does not have
Text(scheme, host, port, rest) ==
    [scheme |-> scheme, host |-> host, port |-> port, rest |-> rest]

Origin(scheme, host, port) == Text(scheme, host, port, "")

origins(ip) ==
    << Origin("https", ip, ""),
       Origin("https", ip, "5000"),
       Origin("https", "127.0.0.1", ""),
       Origin("https", "[::1]", "") >>

rp_id(ip) == ip

Range(s) == {s[i] : i \in 1..Len(s)}

verify_origin_host(ip, origin) ==
    \E o \in Range(origins(ip)) : o.host = origin.host /\ o.port = origin.port

\* WebAuthnManager.verify_origin: origin in self.origins
verify_origin(ip, origin) == origin \in Range(origins(ip))

\* WebAuthnManager.__init__: the instance attributes it assigns, whatever the
\* class carries under the name origins
WebAuthnManager(ip, class_origins) ==
    [built |-> TRUE, class_origins |-> class_origins,
     origins |-> origins(ip), rp |-> rp_id(ip)]

\* the class before an instance is made
NoManager(class_origins) ==
    [built |-> FALSE, class_origins |-> class_origins, origins |-> << >>, rp |-> ""]

\* no origins attribute on the class, as the source defines it
NoClassOrigins == << >>

\* no call of verify_origin was made
NotChecked == [called |-> FALSE, origin |-> Text("", "", "", ""), result |-> FALSE]

manager_verify_origin_first(self, origin) == origin = self.origins[1]

\* verify_origin of an instance: origin in self.origins
manager_verify_origin(self, origin) == origin \in Range(self.origins)


(***************************************************************************)
(* db.credentials (pymongo collection).                                    *)
(***************************************************************************)
Document(id, key, count, username) ==
    [id |-> id, public_key |-> key, sign_count |-> count, username |-> username]

\* position of the first document with this id, 0 when there is none
IndexOfId(d, cid) ==
    IF \E i \in 1..Len(d) : d[i].id = cid
    THEN CHOOSE i \in 1..Len(d) :
            /\ d[i].id = cid
            /\ \A j \in 1..(i - 1) : d[j].id # cid
    ELSE 0

\* db.credentials.find_one({'id': cid}) is not None
has_id(d, cid) == IndexOfId(d, cid) # 0

\* db.credentials.find_one({'id': cid})
find_one(d, cid) == d[IndexOfId(d, cid)]

find_everyone(d, username) == d

\* list(db.credentials.find({'username': username}))
find_username(d, username) == SelectSeq(d, LAMBDA doc : doc.username = username)

\* fido2.utils.websafe_decode and websafe_encode: the bytes a base64url text
\* stands for, and the text of bytes; ids are stored as texts
websafe_decode(text) == [raw |-> text]

websafe_encode(bytes) == bytes.raw

insert_one_replacing(d, doc) ==
    IF has_id(d, doc.id) THEN [d EXCEPT ![IndexOfId(d, doc.id)] = doc]
    ELSE Append(d, doc)

\* db.credentials.insert_one(doc)
insert_one(d, doc) == Append(d, doc)

update_one_all(d, cid, count) ==
    [i \in 1..Len(d) |-> [d[i] EXCEPT !.sign_count = count]]

\* db.credentials.update_one({'id': cid}, {'$set': {'sign_count': count}})
update_one(d, cid, count) ==
    IF has_id(d, cid)
    THEN [d EXCEPT ![IndexOfId(d, cid)].sign_count = count]
    ELSE d

(***************************************************************************)
(* Requests of the complete calls.  A request is the JSON body the client  *)
(* posts; the fields are the ones the handlers and Fido2Server read.       *)
(***************************************************************************)
\* ways a body departs from the well-formed one; "origin_5000" names the
\* second allowed origin, "localhost_rp" the rpId of the request options and
\* "sig_other" a signature its key made over the bytes of another assertion;
\* "store_down" is no flaw of the body: the store fails the call's write
Flaws == {"parse", "type", "origin_http", "origin_evil", "origin_5000",
          "rp", "localhost_rp", "up", "uv", "no_cred", "no_user", "sig_other",
          "store_down"}

\* the bodies tried have at most one flaw
FlawSets == {{}} \cup {{f} : f \in Flaws}

\* counters an authenticator reports in an attestation
RegCounters == {0, 1}

\* the clientDataJSON.origin of a request built with these flaws
RequestOrigin(ip, flaws) ==
    IF "origin_http" \in flaws THEN Origin("http", ip, "")
    ELSE IF "origin_evil" \in flaws THEN Origin("https", "evil.com", "")
    ELSE IF "origin_5000" \in flaws THEN Origin("https", ip, "5000")
    ELSE Origin("https", ip, "")

\* a register-complete body: well formed for this relying party except for flaws
RegRequest(ip, c, cid, key, user, counter, flaws) ==
    [ parse_ok  |-> "parse" \notin flaws,
      type      |-> IF "type" \in flaws THEN "webauthn.get" ELSE "webauthn.create",
      challenge |-> c,
      origin    |-> RequestOrigin(ip, flaws),
      rp        |-> IF "rp" \in flaws THEN "evil.com"
                    ELSE IF "localhost_rp" \in flaws THEN "localhost" ELSE ip,
      up        |-> "up" \notin flaws,
      uv        |-> "uv" \notin flaws,
      counter   |-> counter,
      has_cred  |-> "no_cred" \notin flaws,
      id        |-> cid,
      key       |-> key,
      has_user  |-> "no_user" \notin flaws,
      user      |-> user,
      insert_ok |-> "store_down" \notin flaws ]

\* an authenticate-complete body: key is the key that made the signature, and
\* signed_this says that it is over authenticatorData || SHA-256(clientDataJSON)
\* of this very body
AuthRequest(ip, c, cid, key, counter, flaws) ==
    [ parse_ok  |-> "parse" \notin flaws,
      type      |-> IF "type" \in flaws THEN "webauthn.create" ELSE "webauthn.get",
      challenge |-> c,
      origin    |-> RequestOrigin(ip, flaws),
      rp        |-> IF "rp" \in flaws THEN "evil.com"
                    ELSE IF "localhost_rp" \in flaws THEN "localhost" ELSE ip,
      up        |-> "up" \notin flaws,
      uv        |-> "uv" \notin flaws,
      counter   |-> counter,
      id        |-> cid,
      key       |-> key,
      signed_this |-> "sig_other" \notin flaws ]


(***************************************************************************)
(* Fido2Server, as the ceremonies call it.  Each operator gives the        *)
(* message of the exception the call raises, "ok" when it returns.         *)
(***************************************************************************)
ServerClientDataError_no_challenge(ip, state, data, type) ==
    IF data.type # type THEN "Incorrect type in CollectedClientData."
    ELSE IF ~verify_origin(ip, data.origin) THEN "Invalid origin in CollectedClientData."
    ELSE IF data.rp # rp_id(ip) THEN "Wrong RP ID hash in response."
    ELSE IF ~data.up THEN "User Present flag not set."
    ELSE "ok"

ServerClientDataError_no_presence(ip, state, data, type) ==
    IF data.type # type THEN "Incorrect type in CollectedClientData."
    ELSE IF ~verify_origin(ip, data.origin) THEN "Invalid origin in CollectedClientData."
    ELSE IF data.challenge # state.challenge THEN "Wrong challenge in response."
    ELSE IF data.rp # rp_id(ip) THEN "Wrong RP ID hash in response."
    ELSE "ok"

\* checks shared by Fido2Server.register_complete and authenticate_complete
ServerClientDataError(ip, state, data, type) ==
    IF data.type # type THEN "Incorrect type in CollectedClientData."
    ELSE IF ~verify_origin(ip, data.origin) THEN "Invalid origin in CollectedClientData."
    ELSE IF data.challenge # state.challenge THEN "Wrong challenge in response."
    ELSE IF data.rp # rp_id(ip) THEN "Wrong RP ID hash in response."
    ELSE IF ~data.up THEN "User Present flag not set."
    ELSE "ok"

\* self.server.register_complete(state, data); attestation is NONE, so the
\* attestation statement is not verified
ServerRegisterComplete(ip, state, data) ==
    ServerClientDataError(ip, state, data, "webauthn.create")

ServerAuthenticateComplete_unsigned(ip, state, credential, data) ==
    ServerClientDataError(ip, state, data, "webauthn.get")

\* self.server.authenticate_complete(state, [credential], data): after the
\* client data checks, credential.public_key.verify(authenticatorData +
\* client_data.hash, signature)
ServerAuthenticateComplete(ip, state, credential, data) ==
    LET message == ServerClientDataError(ip, state, data, "webauthn.get")
    IN  IF message # "ok" THEN message
        ELSE IF data.key # credential.public_key \/ ~data.signed_this
             THEN "Invalid signature."
        ELSE "ok"

(***************************************************************************)
(* WebAuthnRegistration.complete and WebAuthnAuthentication.complete up to *)
(* their store write: the message of the exception caught by               *)
(* `except Exception`, "ok" when none is raised.                           *)
(***************************************************************************)
RegistrationCompleteError(ip, state, data) ==
    IF ~data.parse_ok THEN "malformed response"
    ELSE IF state.kind # "dict" THEN "state is not subscriptable"
    ELSE LET message == ServerRegisterComplete(ip, state, data)
         IN  IF message # "ok" THEN message
             ELSE IF ~data.has_cred
                  THEN "'NoneType' object has no attribute 'credential_id'"
             ELSE IF ~data.has_user THEN "'user'"
             ELSE IF ~data.insert_ok THEN "<PyMongoError>"
             ELSE "ok"

\* sign_count = getattr(auth_data, 'sign_count', 0): AuthenticatorData names
\* its counter `counter`, so the default is what is stored
RegistrationSignCount(data) == 0

RegistrationDocument(data) ==
    Document(data.id, data.key, RegistrationSignCount(data), data.user)

AuthenticationCompleteError_strict(ip, d, state, data) ==
    IF ~data.parse_ok THEN "malformed response"
    ELSE IF state.kind # "dict" THEN "state is not subscriptable"
    ELSE IF ~has_id(d, data.id) THEN "Credential not found"
    ELSE LET message ==
                 ServerAuthenticateComplete(ip, state, find_one(d, data.id), data)
         IN  IF message # "ok" THEN message
             ELSE IF ~data.up \/ ~data.uv
                  THEN "User verification required but not performed"
             ELSE IF data.counter <= find_one(d, data.id).sign_count
                  THEN "Possible authenticator cloning detected"
             ELSE "ok"

AuthenticationCompleteError(ip, d, state, data) ==
    IF ~data.parse_ok THEN "malformed response"
    ELSE IF state.kind # "dict" THEN "state is not subscriptable"
    ELSE IF ~has_id(d, data.id) THEN "Credential not found"
    ELSE LET message ==
                 ServerAuthenticateComplete(ip, state, find_one(d, data.id), data)
         IN  IF message # "ok" THEN message
             ELSE IF ~data.up \/ ~data.uv
                  THEN "User verification required but not performed"
             ELSE "ok"

\* the error kind of section 7 that a message stands for
Kind(message) ==
    CASE message \in {"Incorrect type in CollectedClientData.",
                      "Invalid origin in CollectedClientData.",
                      "Wrong challenge in response."} -> "ClientDataInvalid"
      [] message \in {"'register_state'", "'auth_state'"} -> "StateExpired"
      [] message = "Possible authenticator cloning detected" -> "PossibleCloning"
      [] message = "Wrong RP ID hash in response." -> "AssertionMalformed"
      [] message = "malformed response" -> "AssertionMalformed"
      [] message = "'NoneType' object has no attribute 'credential_id'" -> "AttestationMalformed"
      [] message = "User Present flag not set." -> "UserNotPresent"
      [] message = "User verification required but not performed" -> "UserNotVerified"
      [] message = "Invalid signature." -> "SignatureInvalid"
      [] message = "Credential not found" -> "CredentialNotFound"
      [] message \in {"No username provided", "'user'"} -> "ValidationError"
      [] message = "No credentials registered" -> "UnknownUser"
      [] message = "<PyMongoError>" -> "StorageError"
      [] OTHER -> "Fault"


(***************************************************************************)
(* Responses and in-flight requests.                                       *)
(***************************************************************************)
\* ceremony: what begin()/complete() returned ("success", "error", "options",
\* "none" when the ceremony was not called); body: what the route returned
\* ("fault" is an exception leaving the handler); challenge: the challenge in
\* the options sent to the client
Response(http, ceremony, body, message, challenge) ==
    [http |-> http, ceremony |-> ceremony, body |-> body,
     message |-> message, challenge |-> challenge]

\* the record kept of a response: which route sent it and what it said
Answer(op, response) ==
    [op |-> op, ceremony |-> response.ceremony, body |-> response.body,
     message |-> response.message]

\* no response is on its way to a client
NoAnswer == Answer("none", Response(200, "none", "none", "", 0))

\* a request thread: pc is where it stands ("update": authenticate-complete
\* before update_one; "insert": register-complete before insert_one), then
\* what it is about to write and, in old, what it saw in the store
Idle == [pc |-> "idle", id |-> "none", counter |-> 0, old |-> 0,
         key |-> "none", username |-> "None"]

(***************************************************************************)
(* Credential.serialize_public_key and deserialize_public_key.  A COSE key *)
(* is the class that holds it and its entries (label, value) in order; a   *)
(* value is an integer or a byte string.  cbor2 writes a map as the head   *)
(* of the map and then each label and value, in the shortest form of RFC   *)
(* 8949; bytes are numbers 0..255.                                         *)
(***************************************************************************)
IntValue(n) == [t |-> "int", v |-> n]

BytesValue(b) == [t |-> "bytes", v |-> b]

\* fido2.cose.ES256: kty 2 (EC2), alg -7, crv 1 (P-256), x, y
ES256(x, y) ==
    [cls |-> "ES256",
     entries |-> << <<1, IntValue(2)>>, <<3, IntValue(0 - 7)>>,
                    <<0 - 1, IntValue(1)>>, <<0 - 2, BytesValue(x)>>,
                    <<0 - 3, BytesValue(y)>> >>]

\* fido2.cose.RS256: kty 3 (RSA), alg -257, n, e
RS256(n, e) ==
    [cls |-> "RS256",
     entries |-> << <<1, IntValue(3)>>, <<3, IntValue(0 - 257)>>,
                    <<0 - 1, BytesValue(n)>>, <<0 - 2, BytesValue(e)>> >>]

\* the head of a CBOR item: major type and argument
cbor_head(major, arg) ==
    IF arg < 24 THEN <<major * 32 + arg>>
    ELSE IF arg < 256 THEN <<major * 32 + 24, arg>>
    ELSE <<major * 32 + 25, arg \div 256, arg % 256>>

cbor_int_sign_magnitude(n) ==
    IF n >= 0 THEN cbor_head(0, n) ELSE cbor_head(1, 0 - n)

\* an integer: major type 0, or major type 1 with argument -1 - n
cbor_int(n) ==
    IF n >= 0 THEN cbor_head(0, n) ELSE cbor_head(1, (0 - 1) - n)

cbor_bytes(b) == cbor_head(2, Len(b)) \o b

cbor_value(value) ==
    IF value.t = "int" THEN cbor_int(value.v) ELSE cbor_bytes(value.v)

RECURSIVE cbor_pairs(_)
cbor_pairs(entries) ==
    IF entries = << >> THEN << >>
    ELSE cbor_int(entries[1][1]) \o cbor_value(entries[1][2])
            \o cbor_pairs(Tail(entries))

\* cbor2.dumps of a CoseKey, which is a dict
cbor2_dumps(key) == cbor_head(5, Len(key.entries)) \o cbor_pairs(key.entries)

\* the head that starts at position i, and the position after it
read_head(bytes, i) ==
    LET major == bytes[i] \div 32
        info == bytes[i] % 32
    IN  IF info < 24 THEN [major |-> major, arg |-> info, next |-> i + 1]
        ELSE IF info = 24
        THEN [major |-> major, arg |-> bytes[i + 1], next |-> i + 2]
        ELSE [major |-> major, arg |-> bytes[i + 1] * 256 + bytes[i + 2],
              next |-> i + 3]

\* the integer or byte string that starts at position i
read_item(bytes, i) ==
    LET head == read_head(bytes, i)
    IN  IF head.major = 0
        THEN [value |-> IntValue(head.arg), next |-> head.next]
        ELSE IF head.major = 1
        THEN [value |-> IntValue((0 - 1) - head.arg), next |-> head.next]
        ELSE [value |-> BytesValue(SubSeq(bytes, head.next, head.next + head.arg - 1)),
              next |-> head.next + head.arg]

RECURSIVE read_pairs(_, _, _)
read_pairs(bytes, i, n) ==
    IF n = 0 THEN << >>
    ELSE LET label == read_item(bytes, i)
             value == read_item(bytes, label.next)
         IN  << <<label.value.v, value.value>> >>
                \o read_pairs(bytes, value.next, n - 1)

\* cbor2.loads of a map: the entries of a plain dict
cbor2_loads(bytes) ==
    read_pairs(bytes, read_head(bytes, 1).next, read_head(bytes, 1).arg)

\* the value under a label of a dict that has it
entry(entries, label) ==
    entries[CHOOSE i \in 1..Len(entries) : entries[i][1] = label][2]

\* CoseKey.parse: the class for the algorithm under label 3
CoseKey_parse(entries) ==
    [cls |-> CASE entry(entries, 3) = IntValue(0 - 7) -> "ES256"
               [] entry(entries, 3) = IntValue(0 - 257) -> "RS256"
               [] OTHER -> "UnsupportedKey",
     entries |-> entries]

serialize_public_key(public_key) == cbor2_dumps(public_key)

deserialize_public_key(public_key_str) == CoseKey_parse(cbor2_loads(public_key_str))

\* no key registered yet
NoKey == [pc |-> "none", key |-> ES256(<< >>, << >>), stored |-> << >>,
          loaded |-> ES256(<< >>, << >>)]

\* the server process: pc is where main() stands, dir and files are the
\* certificate directory, result is what check_certificates returned, status
\* the exit status of the process and port the port main() chose
Process(pc, dir, files, result, status, port) ==
    [pc |-> pc, dir |-> dir, files |-> files, result |-> result,
     status |-> status, port |-> port]

\* the routes are served
Running == Process("serving", TRUE, {}, << >>, 0, "")

\* no options sent and no document stored
NoUserIds == [options |-> 0, stored |-> << >>]

Init ==
    /\ device_ip \in DeviceIps
    /\ db = << >>
    /\ session = [s \in Sessions |-> EmptySession]
    /\ nextChal = 1
    /\ thr = [t \in Threads |-> Idle]
    /\ last = NoAnswer
    /\ elapsed = 0
    /\ manager = WebAuthnManager(device_ip, NoClassOrigins)
    /\ checked = NotChecked
    /\ userIds = NoUserIds
    /\ cose = NoKey
    /\ boot = Running

\* request.json of a begin call: absent, without the field, or a username
BeginBodies == {"<no json>", "<no username>", ""} \cup Users

BodyFaults == {"<no json>", "<no username>"}

BodyFaultResponse(body) ==
    Response(500, "none", "fault",
             IF body = "<no json>" THEN "username not passed in" ELSE "'username'", 0)

(***************************************************************************)
(* POST /register/begin                                                    *)
(***************************************************************************)
\* registration.begin takes the state from server.register_begin and the
\* options challenge from a second os.urandom(32): a different random value
\* registration_options: challenge is the second os.urandom(32), written
\* as the negative of the state challenge; rp.id is get_device_ip(); the
\* serialized options of server.register_begin are added under their own
\* key by update()
registration_options(ip, username, challenge) ==
    [challenge |-> 0 - challenge,
     rp |-> [id |-> ip, name |-> "WebAuthN Demo"],
     user |-> [name |-> username, displayName |-> username],
     public_key |-> [challenge |-> challenge, rp |-> [id |-> rp_id(ip)]]]

register_begin_response(s, body) ==
    IF body \in BodyFaults THEN BodyFaultResponse(body)
    ELSE Response(200, "options", "options", "",
                  registration_options(device_ip, body, nextChal).challenge)

register_begin_storing(s, body) ==
    /\ last' = Answer("register_begin", register_begin_response(s, body))
    /\ IF body \in BodyFaults
       THEN UNCHANGED <<device_ip, elapsed, db, session, nextChal, thr>>
       ELSE /\ nextChal <= MaxChal
            /\ session' = [session EXCEPT ![s].register_state = StateDict(nextChal)]
            /\ nextChal' = nextChal + 1
            /\ elapsed' = 0
            /\ Len(db) < MaxDocs
            /\ db' = insert_one(db, Document("cid1", "k1", 0, body))
            /\ UNCHANGED <<device_ip, thr>>

register_begin(s, body) ==
    /\ last' = Answer("register_begin", register_begin_response(s, body))
    /\ IF body \in BodyFaults
       THEN UNCHANGED <<device_ip, elapsed, db, session, nextChal, thr>>
       ELSE /\ nextChal <= MaxChal
            /\ session' = [session EXCEPT ![s].register_state = StateDict(nextChal)]
            /\ nextChal' = nextChal + 1
            /\ elapsed' = 0
            /\ UNCHANGED <<device_ip, db, thr>>

(***************************************************************************)
(* POST /register/complete                                                 *)
(***************************************************************************)
register_complete_response(s, data) ==
    IF session[s].register_state = Absent
    THEN \* session.pop('register_state') raises KeyError
         Response(500, "none", "fault", "'register_state'", 0)
    ELSE LET message == RegistrationCompleteError(device_ip,
                            session[s].register_state, data)
         IN  IF message = "ok"
             THEN Response(200, "success", "success", "", 0)
             ELSE Response(400, "error", "error", message, 0)

register_complete_get(s, data) ==
    LET response == register_complete_response(s, data)
    IN  /\ last' = Answer("register_complete", response)
        /\ IF session[s].register_state = Absent
           THEN UNCHANGED <<device_ip, elapsed, db, session, nextChal, thr>>
           ELSE IF response.ceremony = "success"
           THEN /\ session' = [session EXCEPT ![s].register_state = Absent]
                /\ Len(db) < MaxDocs
                /\ db' = insert_one(db, RegistrationDocument(data))
                /\ UNCHANGED <<device_ip, elapsed, nextChal, thr>>
           ELSE UNCHANGED <<device_ip, elapsed, db, session, nextChal, thr>>

register_complete_eager(s, data) ==
    LET response == register_complete_response(s, data)
    IN  /\ last' = Answer("register_complete", response)
        /\ IF session[s].register_state = Absent
           THEN UNCHANGED <<device_ip, elapsed, db, session, nextChal, thr>>
           ELSE /\ session' = [session EXCEPT ![s].register_state = Absent]
                /\ IF response.message \in {"", "'user'", "<PyMongoError>"}
                   THEN /\ Len(db) < MaxDocs
                        /\ db' = insert_one(db, RegistrationDocument(data))
                   ELSE UNCHANGED db
                /\ UNCHANGED <<device_ip, elapsed, nextChal, thr>>

register_complete(s, data) ==
    LET response == register_complete_response(s, data)
    IN  /\ last' = Answer("register_complete", response)
        /\ IF session[s].register_state = Absent
           THEN UNCHANGED <<device_ip, elapsed, db, session, nextChal, thr>>
           ELSE /\ session' = [session EXCEPT ![s].register_state = Absent]
                /\ IF response.ceremony = "success"
                   THEN /\ Len(db) < MaxDocs
                        /\ db' = insert_one(db, RegistrationDocument(data))
                   ELSE UNCHANGED db
                /\ UNCHANGED <<device_ip, elapsed, nextChal, thr>>

\* register-complete seen as two steps, for requests that run concurrently:
\* from session.pop('register_state') to the document built for the store;
\* old is the number of documents that hold the credential id at that time
register_complete_verify(t, s, data) ==
    /\ thr[t] = Idle
    /\ LET response == register_complete_response(s, data)
       IN  IF session[s].register_state = Absent
           THEN /\ last' = Answer("register_complete", response)
                /\ UNCHANGED <<device_ip, elapsed, db, session, nextChal, thr>>
           ELSE /\ session' = [session EXCEPT ![s].register_state = Absent]
                /\ IF response.ceremony = "success"
                   THEN /\ thr' = [thr EXCEPT ![t] =
                                    [pc |-> "insert",
                                     id |-> RegistrationDocument(data).id,
                                     counter |-> RegistrationDocument(data).sign_count,
                                     old |-> Len(SelectSeq(db,
                                                LAMBDA doc : doc.id = data.id)),
                                     key |-> RegistrationDocument(data).public_key,
                                     username |-> RegistrationDocument(data).username]]
                        /\ UNCHANGED last
                   ELSE /\ last' = Answer("register_complete", response)
                        /\ UNCHANGED thr
                /\ UNCHANGED <<device_ip, elapsed, db, nextChal>>

\* insert_one, after which complete() returns success
register_complete_insert(t) ==
    /\ thr[t].pc = "insert"
    /\ Len(db) < MaxDocs
    /\ db' = insert_one(db, Document(thr[t].id, thr[t].key, thr[t].counter,
                                     thr[t].username))
    /\ thr' = [thr EXCEPT ![t] = Idle]
    /\ last' = Answer("register_complete",
                      Response(200, "success", "success", "", 0))
    /\ UNCHANGED <<device_ip, elapsed, session, nextChal>>

(***************************************************************************)
(* POST /authenticate/begin                                                *)
(***************************************************************************)
\* authentication.begin(username): the message of its error pair, or "ok"
AuthenticationBeginError(d, username) ==
    IF username = "" THEN "No username provided"
    ELSE IF Len(find_username(d, username)) = 0 THEN "No credentials registered"
    ELSE "ok"

\* formatted_credentials: type and id, as bytes, of the user's documents
formatted_credentials(d, username) ==
    [i \in 1..Len(find_username(d, username)) |->
        [type |-> "public-key", id |-> websafe_decode(find_username(d, username)[i].id)]]

\* public_key_credential_request_options of a begin() that found
\* credentials; challenge is state['challenge']
public_key_credential_request_options(d, username, challenge) ==
    [challenge |-> challenge,
     allowCredentials |->
        [i \in 1..Len(formatted_credentials(d, username)) |->
            [type |-> "public-key",
             id |-> websafe_encode(formatted_credentials(d, username)[i].id)]],
     userVerification |-> "preferred",
     rpId |-> "localhost"]

\* the route unpacks the error pair (json, 400) as options, state and
\* returns the json with status 200
authenticate_begin_response(s, body) ==
    IF body \in BodyFaults THEN BodyFaultResponse(body)
    ELSE IF AuthenticationBeginError(db, body) # "ok"
    THEN Response(200, "error", "error", AuthenticationBeginError(db, body), 0)
    ELSE Response(200, "options", "options", "",
                  public_key_credential_request_options(db, body, nextChal).challenge)

authenticate_begin(s, body) ==
    /\ last' = Answer("authenticate_begin", authenticate_begin_response(s, body))
    /\ IF body \in BodyFaults
       THEN UNCHANGED <<device_ip, elapsed, db, session, nextChal, thr>>
       ELSE IF AuthenticationBeginError(db, body) # "ok"
       THEN /\ session' = [session EXCEPT ![s].auth_state = Int400,
                                          ![s].username = body]
            /\ elapsed' = 0
            /\ UNCHANGED <<device_ip, db, nextChal, thr>>
       ELSE /\ nextChal <= MaxChal
            /\ session' = [session EXCEPT ![s].auth_state = StateDict(nextChal),
                                          ![s].username = body]
            /\ nextChal' = nextChal + 1
            /\ elapsed' = 0
            /\ UNCHANGED <<device_ip, db, thr>>

(***************************************************************************)
(* POST /authenticate/complete                                             *)
(***************************************************************************)
\* what authentication.complete returns for this request: every check
\* precedes update_one, so the checks decide it
authentication_complete_result(s, data) ==
    LET message == AuthenticationCompleteError(device_ip, db,
                       session[s].auth_state, data)
    IN  IF message = "ok" THEN Response(200, "success", "success", "", 0)
        ELSE Response(400, "error", "error", message, 0)

\* what the route returns: json.loads(result) of the error pair (json, 400)
\* raises TypeError
authenticate_complete_response(s, data) ==
    IF session[s].auth_state = Absent
    THEN \* session.pop('auth_state') raises KeyError
         Response(500, "none", "fault", "'auth_state'", 0)
    ELSE LET result == authentication_complete_result(s, data)
         IN  IF result.ceremony = "success"
             THEN Response(200, "success", "redirect", "", 0)
             ELSE Response(500, "error", "fault", result.message, 0)

authenticate_complete_find_any(t, s, data) ==
    /\ thr[t] = Idle
    /\ LET response == authenticate_complete_response(s, data)
       IN  IF session[s].auth_state = Absent
           THEN /\ last' = Answer("authenticate_complete", response)
                /\ UNCHANGED <<device_ip, elapsed, db, session, nextChal, thr>>
           ELSE /\ session' = [session EXCEPT ![s].auth_state = Absent,
                                              ![s].register_state = Absent]
                /\ IF response.ceremony = "success"
                   THEN /\ thr' = [thr EXCEPT ![t] =
                                    [pc |-> "update", id |-> data.id,
                                     counter |-> data.counter,
                                     old |-> find_one(db, data.id).sign_count,
                                     key |-> "none", username |-> "None"]]
                        /\ UNCHANGED last
                   ELSE /\ last' = Answer("authenticate_complete", response)
                        /\ UNCHANGED thr
                /\ UNCHANGED <<device_ip, elapsed, db, nextChal>>

\* from session.pop('auth_state') to the checks before update_one; a request
\* that passes them answers after its update_one
authenticate_complete_find(t, s, data) ==
    /\ thr[t] = Idle
    /\ LET response == authenticate_complete_response(s, data)
       IN  IF session[s].auth_state = Absent
           THEN /\ last' = Answer("authenticate_complete", response)
                /\ UNCHANGED <<device_ip, elapsed, db, session, nextChal, thr>>
           ELSE /\ session' = [session EXCEPT ![s].auth_state = Absent]
                /\ IF response.ceremony = "success"
                   THEN /\ thr' = [thr EXCEPT ![t] =
                                    [pc |-> "update", id |-> data.id,
                                     counter |-> data.counter,
                                     old |-> find_one(db, data.id).sign_count,
                                     key |-> "none", username |-> "None"]]
                        /\ UNCHANGED last
                   ELSE /\ last' = Answer("authenticate_complete", response)
                        /\ UNCHANGED thr
                /\ UNCHANGED <<device_ip, elapsed, db, nextChal>>

\* update_one, after which the route returns the redirect
authenticate_complete_update(t) ==
    /\ thr[t].pc = "update"
    /\ db' = update_one(db, thr[t].id, thr[t].counter)
    /\ thr' = [thr EXCEPT ![t] = Idle]
    /\ last' = Answer("authenticate_complete",
                      Response(200, "success", "redirect", "", 0))
    /\ UNCHANGED <<device_ip, elapsed, session, nextChal>>

(***************************************************************************)
(* GET /success and POST /signout                                          *)
(***************************************************************************)
success_response(s) ==
    IF session[s].username \in {"None", ""}
    THEN Response(302, "none", "redirect", "", 0)
    ELSE Response(200, "none", "page", session[s].username, 0)

success(s) ==
    /\ last' = Answer("success", success_response(s))
    /\ UNCHANGED <<device_ip, elapsed, db, session, nextChal, thr>>

signout_username(s) ==
    /\ session' = [session EXCEPT ![s].username = "None"]
    /\ last' = Answer("signout", Response(204, "none", "empty", "", 0))
    /\ UNCHANGED <<device_ip, elapsed, db, nextChal, thr>>

\* session.clear()
signout(s) ==
    /\ session' = [session EXCEPT ![s] = EmptySession]
    /\ last' = Answer("signout", Response(204, "none", "empty", "", 0))
    /\ UNCHANGED <<device_ip, elapsed, db, nextChal, thr>>

(***************************************************************************)
(* Specification                                                           *)
(***************************************************************************)
\* challenges tried against a state besides its own: the options challenge
\* register-begin sent with it, and the one issued just before it (0 when
\* there is none: a value no begin call issued)
OtherChallenges(state) == {0 - state.challenge, state.challenge - 1}

\* the key pair of the authenticator each user registers with
AuthenticatorKey(user) == IF user = "alice" THEN "k1" ELSE "k2"

\* register-complete bodies tried against a state: the well-formed ones with
\* every credential id, user name (and that user's key) and counter, the ones
\* with another challenge, and one body per flaw
RegRequests(ip, state) ==
    { RegRequest(ip, state.challenge, cid, AuthenticatorKey(user), user, counter, {}) :
        cid \in CredIds, user \in Users, counter \in RegCounters }
    \cup
    { RegRequest(ip, c, cid, "k1", "alice", 0, {}) :
        c \in OtherChallenges(state), cid \in CredIds }
    \cup
    { RegRequest(ip, state.challenge, "cid1", "k1", "alice", 1, {f}) :
        f \in Flaws \ {"uv", "sig_other"} }

\* authenticate-complete bodies tried against a state: the well-formed ones
\* with every credential id, signing key and counter, the ones with another
\* challenge, and one body per flaw, credential id and signing key
AuthRequests(ip, state) ==
    { AuthRequest(ip, state.challenge, cid, key, counter, {}) :
        cid \in CredIds, key \in Keys, counter \in 0..MaxCounter }
    \cup
    { AuthRequest(ip, c, cid, key, 1, {}) :
        c \in OtherChallenges(state), cid \in CredIds, key \in Keys }
    \cup
    { AuthRequest(ip, state.challenge, cid, key, 1, {f}) :
        cid \in CredIds, key \in Keys,
        f \in Flaws \ {"no_cred", "no_user", "store_down"} }

\* the two families tabulated once, by device address and state challenge
RegRequestsOf ==
    [ip \in DeviceIps, c \in 0..(MaxChal + 1) |-> RegRequests(ip, StateDict(c))]

AuthRequestsOf ==
    [ip \in DeviceIps, c \in 0..(MaxChal + 1) |-> AuthRequests(ip, StateDict(c))]

\* a request thread that is free, when there is one
FreeThread == CHOOSE t \in DOMAIN thr : thr[t] = Idle

\* The response of a handler is recorded in last until it has left the
\* server; last is written and never read by the handlers, so taking the
\* next request after that loses no reachable store or session state.
RegisterBegin ==
    /\ last = NoAnswer
    /\ \E s \in DOMAIN session, body \in BeginBodies : register_begin(s, body)
    /\ UNCHANGED <<manager, checked, userIds, cose, boot>>

\* without a pending state the handler fails before it reads the body
RegisterComplete ==
    /\ last = NoAnswer
    /\ \E s \in DOMAIN session :
        IF session[s].register_state = Absent
        THEN register_complete(s, RegRequest(device_ip, 0, "cid1", "k1", "alice", 0, {}))
        ELSE \E data \in RegRequestsOf[device_ip, session[s].register_state.challenge] :
                register_complete(s, data)
    /\ UNCHANGED <<manager, checked, userIds, cose, boot>>

AuthenticateBegin ==
    /\ last = NoAnswer
    /\ \E s \in DOMAIN session, body \in BeginBodies : authenticate_begin(s, body)
    /\ UNCHANGED <<manager, checked, userIds, cose, boot>>

AuthenticateCompleteFind ==
    /\ last = NoAnswer
    /\ \E t \in DOMAIN thr : thr[t] = Idle
    /\ \E s \in DOMAIN session :
        IF session[s].auth_state = Absent
        THEN authenticate_complete_find(FreeThread, s,
                AuthRequest(device_ip, 0, "cid1", "k1", 0, {}))
        ELSE \E data \in AuthRequestsOf[device_ip, session[s].auth_state.challenge] :
                authenticate_complete_find(FreeThread, s, data)
    /\ UNCHANGED <<manager, checked, userIds, cose, boot>>

AuthenticateCompleteUpdate ==
    /\ last = NoAnswer
    /\ \E t \in DOMAIN thr : authenticate_complete_update(t)
    /\ UNCHANGED <<manager, checked, userIds, cose, boot>>

Success ==
    /\ last = NoAnswer
    /\ \E s \in DOMAIN session : success(s)
    /\ UNCHANGED <<manager, checked, userIds, cose, boot>>

Signout ==
    /\ last = NoAnswer
    /\ \E s \in DOMAIN session : signout(s)
    /\ UNCHANGED <<manager, checked, userIds, cose, boot>>

\* the response leaves the server
Respond ==
    /\ last # NoAnswer
    /\ last' = NoAnswer
    /\ UNCHANGED <<device_ip, elapsed, db, session, nextChal, thr>>
    /\ UNCHANGED <<manager, checked, userIds, cose, boot>>

Next ==
    \/ RegisterBegin
    \/ RegisterComplete
    \/ AuthenticateBegin
    \/ AuthenticateCompleteFind
    \/ AuthenticateCompleteUpdate
    \/ Success
    \/ Signout
    \/ Respond

Spec == Init /\ [][Next]_vars

(***************************************************************************)
(* Registrations in concurrent request threads: the routes of the          *)
(* registration ceremony, with register-complete in its two steps.         *)
(***************************************************************************)
RegisterCompleteVerify ==
    /\ last = NoAnswer
    /\ \E t \in DOMAIN thr : thr[t] = Idle
    /\ \E s \in DOMAIN session :
        IF session[s].register_state = Absent
        THEN register_complete_verify(FreeThread, s,
                RegRequest(device_ip, 0, "cid1", "k1", "alice", 0, {}))
        ELSE \E data \in RegRequestsOf[device_ip, session[s].register_state.challenge] :
                register_complete_verify(FreeThread, s, data)
    /\ UNCHANGED <<manager, checked, userIds, cose, boot>>

RegisterCompleteInsert ==
    /\ last = NoAnswer
    /\ \E t \in DOMAIN thr : register_complete_insert(t)
    /\ UNCHANGED <<manager, checked, userIds, cose, boot>>

NextRace ==
    \/ RegisterBegin
    \/ RegisterCompleteVerify
    \/ RegisterCompleteInsert
    \/ Respond

SpecRace == Init /\ [][NextRace]_vars

(***************************************************************************)
(* The ceremonies with the passing of time: a timeout period (the timeout  *)
(* of the options sent to the client) ends while no request is served.     *)
(***************************************************************************)
Tick ==
    /\ last = NoAnswer
    /\ elapsed < MaxElapsed
    /\ elapsed' = elapsed + 1
    /\ UNCHANGED <<device_ip, db, session, nextChal, thr, last>>
    /\ UNCHANGED <<manager, checked, userIds, cose, boot>>

NextClock ==
    \/ RegisterBegin
    \/ RegisterComplete
    \/ AuthenticateBegin
    \/ AuthenticateCompleteFind
    \/ AuthenticateCompleteUpdate
    \/ Respond
    \/ Tick

SpecClock == Init /\ [][NextClock]_vars

(***************************************************************************)
(* Registrations with the user handle: begin() draws user_id from          *)
(* os.urandom(32) at every call and sends it in the options; complete()    *)
(* stores data['user']['id'], the user.id the client was sent and posts    *)
(* back; no call reads a userId from the store.                            *)
(***************************************************************************)
\* user_id = os.urandom(32): a value no earlier call drew
user_id == nextChal

RegisterBeginHandle ==
    /\ last = NoAnswer
    /\ \E s \in DOMAIN session, body \in BeginBodies :
        /\ register_begin(s, body)
        /\ userIds' = IF body \in BodyFaults THEN userIds
                      ELSE [userIds EXCEPT !.options = user_id]
    /\ UNCHANGED <<manager, checked, cose, boot>>

RegisterCompleteHandle ==
    /\ last = NoAnswer
    /\ \E s \in DOMAIN session :
        IF session[s].register_state = Absent
        THEN register_complete(s, RegRequest(device_ip, 0, "cid1", "k1", "alice", 0, {}))
        ELSE \E data \in RegRequestsOf[device_ip, session[s].register_state.challenge] :
                register_complete(s, data)
    /\ userIds' = IF Len(db') > Len(db)
                  THEN [userIds EXCEPT !.stored = Append(@, userIds.options)]
                  ELSE userIds
    /\ UNCHANGED <<manager, checked, cose, boot>>

NextHandle ==
    \/ RegisterBeginHandle
    \/ RegisterCompleteHandle
    \/ Respond

SpecHandle == Init /\ [][NextHandle]_vars

(***************************************************************************)
(* A public key from registration to authentication: complete() of the     *)
(* registration stores serialize_public_key(public_key), complete() of the *)
(* authentication verifies with deserialize_public_key of what is stored.  *)
(***************************************************************************)
\* values of the bytes of a coordinate
KeyBytes == {0, 24, 255}

\* a coordinate of the size of a P-256 key
FullCoordinate == [i \in 1..32 |-> 171]

\* coordinates, moduli and exponents of the keys registered
KeyStrings ==
    UNION {[1..n -> KeyBytes] : n \in 1..MaxKeyLen} \cup {FullCoordinate}

\* the keys of the algorithms the options offer
SupportedKeys ==
    {ES256(x, y) : x \in KeyStrings, y \in KeyStrings}
    \cup {RS256(n, e) : n \in KeyStrings, e \in KeyStrings}

InitKey ==
    /\ device_ip = "localhost"
    /\ db = << >>
    /\ session = [s \in Sessions |-> EmptySession]
    /\ nextChal = 1
    /\ thr = [t \in Threads |-> Idle]
    /\ last = NoAnswer
    /\ elapsed = 0
    /\ manager = WebAuthnManager(device_ip, NoClassOrigins)
    /\ checked = NotChecked
    /\ userIds = NoUserIds
    /\ boot = Running
    /\ \E key \in SupportedKeys : cose = [NoKey EXCEPT !.pc = "attested", !.key = key]

\* registration: serialized_public_key = Credential.serialize_public_key(...)
SerializePublicKey ==
    /\ cose.pc = "attested"
    /\ cose' = [cose EXCEPT !.pc = "stored",
                            !.stored = serialize_public_key(cose.key)]
    /\ UNCHANGED <<device_ip, db, session, nextChal, thr, last, elapsed,
                   manager, checked, userIds, boot>>

\* authentication: Credential.deserialize_public_key(credential_dict['public_key'])
DeserializePublicKey ==
    /\ cose.pc = "stored"
    /\ cose' = [cose EXCEPT !.pc = "loaded",
                            !.loaded = deserialize_public_key(cose.stored)]
    /\ UNCHANGED <<device_ip, db, session, nextChal, thr, last, elapsed,
                   manager, checked, userIds, boot>>

NextKey ==
    \/ SerializePublicKey
    \/ DeserializePublicKey

SpecKey == InitKey /\ [][NextKey]_vars

(***************************************************************************)
(* main(): check_certificates(), then WebAuthnApp(port) and app.run.       *)
(***************************************************************************)
\* files that may lie in ~/.toy-webauthn-certs
CertFiles ==
    UNION {{ip \o ".pem", ip \o "-key.pem"} : ip \in DeviceIps} \cup {"other.pem"}

\* os.path.exists of a file of the certificate directory
exists(name) == boot.dir /\ name \in boot.files

cert_path(ip) == ip \o ".pem"

key_path(ip) == ip \o "-key.pem"

check_certificates_any(ip) ==
    IF ~exists(cert_path(ip)) /\ ~exists(key_path(ip))
    THEN [exit |-> TRUE, status |-> 1, result |-> << >>]
    ELSE [exit |-> FALSE, status |-> 0, result |-> <<cert_path(ip), key_path(ip)>>]

\* check_certificates(): sys.exit(1) or the pair of paths
check_certificates(ip) ==
    IF ~exists(cert_path(ip)) \/ ~exists(key_path(ip))
    THEN [exit |-> TRUE, status |-> 1, result |-> << >>]
    ELSE [exit |-> FALSE, status |-> 0, result |-> <<cert_path(ip), key_path(ip)>>]

\* WebAuthnApp.__init__(self) called with these arguments
WebAuthnApp(args) == IF Len(args) = 0 THEN "ok" ELSE "TypeError"

\* port = 6000
port == "6000"

InitMain ==
    /\ device_ip \in DeviceIps
    /\ db = << >>
    /\ session = [s \in Sessions |-> EmptySession]
    /\ nextChal = 1
    /\ thr = [t \in Threads |-> Idle]
    /\ last = NoAnswer
    /\ elapsed = 0
    /\ manager = NoManager(NoClassOrigins)
    /\ checked = NotChecked
    /\ userIds = NoUserIds
    /\ cose = NoKey
    /\ \E dir \in BOOLEAN, files \in SUBSET CertFiles :
        /\ ~dir => files = {}
        /\ boot = Process("main", dir, files, << >>, 0, "")

\* cert_path, key_path = check_certificates(); SystemExit passes the
\* except Exception of main()
CheckCertificates ==
    /\ boot.pc = "main"
    /\ LET checked_certificates == check_certificates(device_ip)
       IN  boot' = [boot EXCEPT
                      !.pc = IF checked_certificates.exit THEN "exit" ELSE "certificates",
                      !.status = checked_certificates.status,
                      !.result = checked_certificates.result]
    /\ UNCHANGED <<device_ip, db, session, nextChal, thr, last, elapsed,
                   manager, checked, userIds, cose>>

\* port = 6000; app = WebAuthnApp(port); app.app.run(...): an exception is
\* logged and ends the process with status 1
StartApp ==
    /\ boot.pc = "certificates"
    /\ IF WebAuthnApp(<<port>>) = "ok"
       THEN /\ boot' = [boot EXCEPT !.pc = "serving", !.port = port]
            /\ manager' = WebAuthnManager(device_ip, manager.class_origins)
       ELSE /\ boot' = [boot EXCEPT !.pc = "exit", !.status = 1, !.port = port]
            /\ UNCHANGED manager
    /\ UNCHANGED <<device_ip, db, session, nextChal, thr, last, elapsed,
                   checked, userIds, cose>>

NextMain ==
    \/ CheckCertificates
    \/ StartApp

SpecMain == InitMain /\ [][NextMain]_vars

(***************************************************************************)
(* The origin check by itself: a WebAuthnManager is made, on a class that  *)
(* carries an origins list of its own or none, and verify_origin is called *)
(* with arguments of every shape.                                          *)
(***************************************************************************)
\* the argument None
None == Text("None", "None", "None", "None")

\* the list a caller puts on the class before making the instance
CustomOrigins == << Origin("https", "custom.domain", "") >>

\* arguments of verify_origin: texts of every scheme, host, port and rest
\* tried, the empty string and None
OriginInputs ==
    { Text(scheme, host, number, rest) :
        scheme \in {"https", "http", "ftp"},
        host \in {"localhost", "192.168.1.5", "127.0.0.1", "127.0.0.2",
                  "[::1]", "evil.com", "custom.domain"},
        number \in {"", "5000", "8080"},
        rest \in {"", "/extra/path", "?query=param", "#fragment"} }
    \cup {Text("", "", "", ""), None}

InitOrigin ==
    /\ device_ip \in DeviceIps
    /\ db = << >>
    /\ session = [s \in Sessions |-> EmptySession]
    /\ nextChal = 1
    /\ thr = [t \in Threads |-> Idle]
    /\ last = NoAnswer
    /\ elapsed = 0
    /\ manager \in {NoManager(NoClassOrigins), NoManager(CustomOrigins)}
    /\ checked = NotChecked
    /\ userIds = NoUserIds
    /\ cose = NoKey
    /\ boot = Running

\* manager = WebAuthnManager(db)
WebAuthnManagerInit ==
    /\ ~manager.built
    /\ manager' = WebAuthnManager(device_ip, manager.class_origins)
    /\ UNCHANGED <<device_ip, db, session, nextChal, thr, last, elapsed, checked, userIds, cose, boot>>

\* manager.verify_origin(origin): reads self.origins and returns
VerifyOrigin ==
    /\ manager.built
    /\ \E origin \in OriginInputs :
         checked' = [called |-> TRUE, origin |-> origin,
                     result |-> manager_verify_origin(manager, origin)]
    /\ UNCHANGED <<device_ip, db, session, nextChal, thr, last, elapsed, manager, userIds, cose, boot>>

NextOrigin ==
    \/ WebAuthnManagerInit
    \/ VerifyOrigin

SpecOrigin == InitOrigin /\ [][NextOrigin]_vars

(***************************************************************************)
(* Properties                                                              *)
(***************************************************************************)
\* the sign_count stored for a credential id
Stored(d, cid) == find_one(d, cid).sign_count

\* documents present before a step are present and equal after it
DocumentsKept == \A i \in 1..Len(db) : i <= Len(db') /\ db'[i] = db[i]

\* an assertion that meets every requirement other than the counter rule
ValidAssertion(state, data) ==
    /\ data.parse_ok
    /\ state.kind = "dict"
    /\ has_id(db, data.id)
    /\ data.type = "webauthn.get"
    /\ data.origin \in Range(origins(device_ip))
    /\ data.challenge = state.challenge
    /\ data.rp = rp_id(device_ip)
    /\ data.up /\ data.uv
    /\ data.key = find_one(db, data.id).public_key
    /\ data.signed_this

\* whether an origin is one of the allowed origins, tabulated
verified ==
    [ip \in DeviceIps, o \in {RequestOrigin(i, fs) : i \in DeviceIps, fs \in FlawSets}
        |-> o \in Range(origins(ip))]

\* the step is taken by the register-complete route
RegisterStep == last'.op = "register_complete"

\* the step is taken by the authenticate-complete route before its write
FindStep ==
    \/ last'.op = "authenticate_complete" /\ thr' = thr
    \/ last' = last /\ thr' # thr

\* C1: replay. When a complete request succeeds, the same request submitted
\* again gets a structured StateExpired error: it does not succeed, it is
\* not a fault, and it writes nothing.
C1_ReplayGetsStateExpired ==
    [][\A s \in DOMAIN session :
        /\ (RegisterStep /\ last'.ceremony = "success") =>
            \A d \in RegRequestsOf[device_ip, session[s].register_state.challenge] :
                register_complete(s, d)
                    => /\ register_complete_response(s, d)'.body = "error"
                       /\ Kind(register_complete_response(s, d)'.message) = "StateExpired"
        /\ (FindStep /\ thr' # thr) =>
            \A d \in AuthRequestsOf[device_ip, session[s].auth_state.challenge], t \in DOMAIN thr :
                authenticate_complete_find(t, s, d)
                    => /\ authenticate_complete_response(s, d)'.body = "error"
                       /\ Kind(authenticate_complete_response(s, d)'.message) = "StateExpired"
      ]_vars

C3_CloneRejected ==
    [][FindStep =>
        \A s \in DOMAIN session, t \in DOMAIN thr :
        \A d \in AuthRequestsOf[device_ip, session[s].auth_state.challenge] :
            (/\ session[s].auth_state # Absent
             /\ has_id(db, d.id) /\ Stored(db, d.id) # 0
             /\ d.counter # 0 /\ d.counter <= Stored(db, d.id)
             /\ authenticate_complete_find(t, s, d))
                => /\ thr' = thr
                   /\ last'.ceremony = "error"
                   /\ (ValidAssertion(session[s].auth_state, d)
                        => Kind(last'.message) = "PossibleCloning")
      ]_vars

\* C4: the stored sign_count of every credential never decreases.
C4_SignCountMonotonic ==
    [][\A i \in 1..Len(db) :
            i <= Len(db') /\ db'[i].sign_count >= db[i].sign_count]_vars

\* C5: the sign_count write is conditional. A request whose counter
\* satisfied the counter rule against the count it read does not lower the
\* count that is stored when it writes.
C5_ConditionalWrite ==
    [][\A t \in DOMAIN thr :
        (thr[t].pc = "update" /\ thr[t].counter > thr[t].old
            /\ authenticate_complete_update(t))
            => Stored(db', thr[t].id) >= Stored(db, thr[t].id)]_vars

\* C6: every step other than the store write of a successful
\* authenticate-complete leaves every stored credential record as it was.
C6_OnlyAuthenticationWrites ==
    [][(\A t \in DOMAIN thr : ~(thr[t].pc = "update" /\ thr'[t] = Idle))
            => DocumentsKept]_vars

C6_Witness ==
    /\ Len(db) = 2
    /\ db[1].sign_count > 0
    /\ last.op = "register_complete"
    /\ last.ceremony = "success"

\* C7: a successful authenticate-complete with counter new leaves the
\* credential it used with sign_count new, and every other field and every
\* other record unchanged.
C7_SuccessStoresCounter ==
    [][\A t \in DOMAIN thr :
        (thr[t].pc = "update" /\ authenticate_complete_update(t))
            => LET i == IndexOfId(db, thr[t].id)
               IN  /\ i # 0
                   /\ Len(db') = Len(db)
                   /\ db'[i] = [db[i] EXCEPT !.sign_count = thr[t].counter]
                   /\ \A j \in 1..Len(db) : j # i => db'[j] = db[j]
                   /\ last'.ceremony = "success"]_vars

C7_Witness ==
    /\ Len(db) = 2
    /\ db[1].sign_count = 0
    /\ db[2].sign_count = 2
    /\ last.op = "authenticate_complete"
    /\ last.ceremony = "success"

\* C8: counter-less authenticators. With stored sign_count 0 and counter 0
\* an otherwise valid assertion passes every check, and its write leaves the
\* stored sign_count 0 and answers success.
C8_ZeroCounterAccepted ==
    [][/\ FindStep =>
            \A s \in DOMAIN session, t \in DOMAIN thr :
            \A d \in AuthRequestsOf[device_ip, session[s].auth_state.challenge] :
                (/\ d.counter = 0
                 /\ ValidAssertion(session[s].auth_state, d)
                 /\ Stored(db, d.id) = 0
                 /\ authenticate_complete_find(t, s, d))
                    => /\ thr'[t].pc = "update"
                       /\ thr'[t].counter = 0
       /\ \A t \in DOMAIN thr :
            (/\ thr[t].pc = "update"
             /\ thr[t].counter = 0 /\ Stored(db, thr[t].id) = 0
             /\ authenticate_complete_update(t))
                => /\ Stored(db', thr[t].id) = 0
                   /\ last'.ceremony = "success"
      ]_vars

C8_Witness ==
    /\ Len(db) = 1
    /\ db[1].sign_count = 0
    /\ last.op = "authenticate_complete"
    /\ last.ceremony = "success"

\* C9: origin enforcement. A complete call whose origin is not one of the
\* allowed origins does not succeed and writes nothing to the store: every
\* step of a complete route either answers without success and without a
\* write, or is the step of no request with such an origin.
C9_OriginEnforced ==
    [][\A s \in DOMAIN session :
        /\ RegisterStep =>
            \/ last'.ceremony # "success" /\ db' = db
            \/ \A d \in RegRequestsOf[device_ip, session[s].register_state.challenge] :
                    ~verified[device_ip, d.origin] => ~register_complete(s, d)
        /\ FindStep =>
            \/ last'.ceremony # "success" /\ thr' = thr /\ db' = db
            \/ \A d \in AuthRequestsOf[device_ip, session[s].auth_state.challenge],
                  t \in DOMAIN thr :
                    ~verified[device_ip, d.origin] => ~authenticate_complete_find(t, s, d)
      ]_vars

C9_Witness ==
    /\ Len(db) >= 1
    /\ last.op = "authenticate_complete"
    /\ last.message = "Invalid origin in CollectedClientData."

\* C10: challenge binding. A complete call whose challenge differs from the
\* challenge of the state it consumed does not succeed and writes nothing;
\* when the response parses (and, for authentication, names a stored
\* credential) the error is ClientDataInvalid.
C10_ChallengeBound ==
    [][\A s \in DOMAIN session :
        /\ (RegisterStep /\ session[s].register_state.kind = "dict") =>
            \A d \in RegRequestsOf[device_ip, session[s].register_state.challenge] :
                (d.challenge # session[s].register_state.challenge
                    /\ register_complete(s, d))
                    => /\ last'.ceremony = "error" /\ db' = db
                       /\ d.parse_ok => Kind(last'.message) = "ClientDataInvalid"
        /\ (FindStep /\ session[s].auth_state.kind = "dict") =>
            \A d \in AuthRequestsOf[device_ip, session[s].auth_state.challenge], t \in DOMAIN thr :
                (d.challenge # session[s].auth_state.challenge
                    /\ authenticate_complete_find(t, s, d))
                    => /\ last'.ceremony = "error" /\ thr' = thr /\ db' = db
                       /\ (d.parse_ok /\ has_id(db, d.id))
                            => Kind(last'.message) = "ClientDataInvalid"
      ]_vars

C10_Witness ==
    /\ Len(db) >= 1
    /\ last.op = "authenticate_complete"
    /\ last.message = "Wrong challenge in response."

\* the assertion meets every requirement that is checked before the flags
ValidBeforeFlags(state, data) ==
    /\ data.challenge = state.challenge
    /\ data.parse_ok
    /\ data.type = "webauthn.get"
    /\ data.rp = rp_id(device_ip)
    /\ state.kind = "dict"
    /\ verified[device_ip, data.origin]
    /\ has_id(db, data.id)

\* the assertion meets every requirement that is checked before the signature
ValidBeforeSignature(state, data) ==
    /\ data.challenge = state.challenge
    /\ data.parse_ok
    /\ data.up
    /\ data.type = "webauthn.get"
    /\ data.rp = rp_id(device_ip)
    /\ state.kind = "dict"
    /\ verified[device_ip, data.origin]
    /\ has_id(db, data.id)

\* the signature of the assertion does not verify under the stored key
BadSignature(data) ==
    \/ ~data.signed_this
    \/ data.key # find_one(db, data.id).public_key

\* C11: signature. An authenticate-complete whose signature was not made by
\* the public key stored for the credential id it names, over the
\* authenticator data and client data hash of this very response, does not
\* succeed and schedules no sign_count write; when every earlier check passes
\* the error is SignatureInvalid.  Stated per step: a step that succeeds or
\* writes is the step of no such request, and a step that answers anything
\* but SignatureInvalid is the step of no such request that passes every
\* earlier check.
C11_SignatureRequired ==
    [][FindStep =>
        \A s \in DOMAIN session :
            /\ \/ last'.ceremony # "success" /\ thr' = thr /\ db' = db
               \/ \A d \in AuthRequestsOf[device_ip, session[s].auth_state.challenge] :
                    (has_id(db, d.id) /\ BadSignature(d))
                        => \A t \in DOMAIN thr : ~authenticate_complete_find(t, s, d)
            /\ \/ last'.message = "Invalid signature."
               \/ \A d \in AuthRequestsOf[device_ip, session[s].auth_state.challenge] :
                    (ValidBeforeSignature(session[s].auth_state, d) /\ BadSignature(d))
                        => \A t \in DOMAIN thr : ~authenticate_complete_find(t, s, d)
      ]_vars

\* a signature was refused while two records hold the credential id under
\* different keys
C11_Witness ==
    /\ Len(db) = 2
    /\ db[1].id = db[2].id
    /\ db[1].public_key # db[2].public_key
    /\ last.op = "authenticate_complete"
    /\ last.message = "Invalid signature."

\* the credential ids authenticate-begin lists (allowCredentials) for a user
AllowedIds(d, username) ==
    {find_username(d, username)[i].id : i \in 1..Len(find_username(d, username))}

\* C12: credential scoping. An authenticate-complete passes its checks only
\* for a credential id that the begin call of its state listed, that is a
\* credential registered to the user named in that begin call.
C12_CredentialScoped ==
    [][\A s \in DOMAIN session, t \in DOMAIN thr :
        (FindStep /\ thr[t] = Idle /\ thr'[t].pc = "update")
            => thr'[t].id \in AllowedIds(db, session[s].username)]_vars

\* C13: owner binding. The owner stored by a successful register-complete is
\* fixed by the consumed state (the username of its begin call), so it is the
\* same for every request body that differs only in its user fields.
C13_OwnerFromBegin ==
    [][\A s \in DOMAIN session :
        (RegisterStep /\ last'.ceremony = "success") =>
            \A d \in RegRequestsOf[device_ip, session[s].register_state.challenge] :
                register_complete(s, d) =>
                    \A user \in Users :
                        RegistrationDocument([d EXCEPT !.user = user]).username
                            = db'[Len(db')].username]_vars

\* C14: duplicate rejection. A register-complete whose credential id is
\* already in the store returns an error (DuplicateCredential) and leaves the
\* store as it was.
C14_DuplicateRejected ==
    [][\A s \in DOMAIN session :
        (RegisterStep /\ session[s].register_state.kind = "dict") =>
            \A d \in RegRequestsOf[device_ip, session[s].register_state.challenge] :
                (has_id(db, d.id) /\ register_complete(s, d))
                    => /\ last'.ceremony = "error"
                       /\ db' = db]_vars

\* C15: racing registrations. Of the register-complete calls in flight with
\* one credential id, one wins: a call that found no record with its
\* credential id inserts none when another call has inserted one meanwhile.
C15_OneWinner ==
    [][\A t \in DOMAIN thr :
        (thr[t].pc = "insert" /\ thr[t].old = 0 /\ register_complete_insert(t))
            => ~has_id(db, thr[t].id)]_vars

\* C16: registration is all-or-nothing. A register-complete that answers
\* success has added exactly one record and kept the others; one that answers
\* anything else (an error of the ceremony, a failed insert, no pending
\* state) leaves the store exactly as it was.
C16_AllOrNothing ==
    [][RegisterStep =>
        IF last'.ceremony = "success"
        THEN Len(db') = Len(db) + 1 /\ DocumentsKept
        ELSE db' = db]_vars

C16_Witness ==
    /\ Len(db) = 1
    /\ last.op = "register_complete"
    /\ last.ceremony = "error"
    /\ last.message \in {"'user'", "<PyMongoError>"}

\* C17: initial sign_count. The record added by a successful
\* register-complete holds the counter that the authenticator data of the
\* attestation reported.
C17_InitialCounterStored ==
    [][\A s \in DOMAIN session :
        (RegisterStep /\ last'.ceremony = "success") =>
            \A d \in RegRequestsOf[device_ip, session[s].register_state.challenge] :
                register_complete(s, d)
                    => db'[Len(db')].sign_count = d.counter]_vars

\* C18: state expiry. A complete call made when at least one timeout period
\* has passed since its state was stored fails (StateExpired): it does not
\* succeed and it writes nothing, whatever the response.
C18_ExpiredStateRefused ==
    [][\A s \in DOMAIN session :
        /\ (elapsed >= 1 /\ RegisterStep)
            => /\ last'.ceremony # "success"
               /\ db' = db
        /\ (elapsed >= 1 /\ FindStep)
            => /\ last'.ceremony # "success"
               /\ thr' = thr /\ db' = db
      ]_vars

\* C19: kind separation. Each complete reads and removes only the pending
\* state of its own ceremony, a pending state of a ceremony is stored only by
\* the begin call of that ceremony, and a response made for the challenge of
\* the other ceremony's pending state is not accepted.
C19_KindSeparation ==
    [][\A s \in DOMAIN session :
        /\ RegisterStep
            => /\ session'[s].auth_state = session[s].auth_state
               /\ \/ last'.ceremony # "success"
                  \/ \A d \in RegRequestsOf[device_ip, session[s].register_state.challenge] :
                        (session[s].auth_state.kind = "dict"
                            /\ d.challenge = session[s].auth_state.challenge)
                            => ~register_complete(s, d)
        /\ FindStep
            => /\ session'[s].register_state = session[s].register_state
               /\ \/ thr' = thr
                  \/ \A d \in AuthRequestsOf[device_ip, session[s].auth_state.challenge] :
                        (session[s].register_state.kind = "dict"
                            /\ d.challenge = session[s].register_state.challenge)
                            => \A t \in DOMAIN thr : ~authenticate_complete_find(t, s, d)
        /\ (session'[s].register_state # session[s].register_state
                /\ session'[s].register_state # Absent)
            => last'.op = "register_begin"
        /\ (session'[s].auth_state # session[s].auth_state
                /\ session'[s].auth_state # Absent)
            => last'.op = "authenticate_begin"
      ]_vars

\* authenticate-complete refused a challenge while a registration state
\* was pending, and left that state in place
C19_Witness ==
    \E s \in DOMAIN session :
        /\ last.op = "authenticate_complete"
        /\ last.message = "Wrong challenge in response."
        /\ session[s].register_state.kind = "dict"
        /\ session[s].auth_state = Absent

\* C20: user presence. An authenticate-complete whose authenticator data has
\* the user-present flag clear does not succeed and schedules no sign_count
\* write, whatever its signature; when every earlier check passes the error
\* is UserNotPresent.  Stated per step, as C11.
C20_UserPresenceRequired ==
    [][FindStep =>
        \A s \in DOMAIN session :
            /\ \/ last'.ceremony # "success" /\ thr' = thr /\ db' = db
               \/ \A d \in AuthRequestsOf[device_ip, session[s].auth_state.challenge] :
                    ~d.up => \A t \in DOMAIN thr : ~authenticate_complete_find(t, s, d)
            /\ \/ last'.message = "User Present flag not set."
               \/ \A d \in AuthRequestsOf[device_ip, session[s].auth_state.challenge] :
                    (~d.up /\ ValidBeforeFlags(session[s].auth_state, d))
                        => \A t \in DOMAIN thr : ~authenticate_complete_find(t, s, d)
      ]_vars

C20_Witness ==
    /\ Len(db) >= 1
    /\ last.op = "authenticate_complete"
    /\ last.ceremony = "error"
    /\ Kind(last.message) = "UserNotPresent"

\* C21: user verification only when required. Under the policy of
\* authenticate-begin (userVerification preferred) an assertion with the
\* user-present flag set and the user-verified flag clear that passes every
\* other check is accepted.
C21_VerificationOnlyIfRequired ==
    [][FindStep =>
        \A s \in DOMAIN session :
        \A d \in AuthRequestsOf[device_ip, session[s].auth_state.challenge] :
            (/\ ~d.uv
             /\ ValidBeforeSignature(session[s].auth_state, d)
             /\ ~BadSignature(d))
                => \A t \in DOMAIN thr :
                        authenticate_complete_find(t, s, d) => thr'[t].pc = "update"
      ]_vars

\* C22: authenticate-begin for a user name without stored credentials
\* answers "No credentials registered" and leaves the caller's session as it
\* was: no pending authentication state and nothing else new.
C22_UnknownUserNoState ==
    [][(/\ last'.op = "authenticate_begin"
        /\ Kind(last'.message) = "UnknownUser") => session' = session]_vars

\* C23: register-begin with an empty user name answers with a validation
\* error, issues no challenge and leaves the session without a pending
\* registration state.
C23_EmptyUsernameRefused ==
    [][\A s \in DOMAIN session :
        (last = NoAnswer /\ register_begin(s, ""))
            => /\ Kind(last'.message) = "ValidationError"
               /\ last'.body = "error"
               /\ nextChal' = nextChal
               /\ session' = session]_vars

\* C24: no call of a ceremony route ends with an exception leaving the
\* handler before the ceremony is entered: a begin call without a body or
\* without the username field, and a complete call without a pending state,
\* are answered with a {status: error} body.
C24_StructuredResult ==
    last.op \in {"register_begin", "register_complete",
                 "authenticate_begin", "authenticate_complete"}
        => ~(last.ceremony = "none" /\ last.body = "fault")

\* C25: the authenticate-complete route answers a failed verification of
\* the ceremony with the ceremony's {status: error, message} body, never with
\* an exception raised while handling that result.
C25_ErrorResultReturned ==
    (/\ last.op = "authenticate_complete"
     /\ last.ceremony = "error"
     /\ Kind(last.message) # "Fault") => last.body = "error"

\* C26: verify_origin answers True exactly for the arguments equal to a
\* member of the instance's origins list, False for every other one (another
\* scheme, host or port, an added path, query or fragment, the empty string,
\* None); the call leaves the list as it was, and a repeated call with the
\* same argument answers the same.
C26_ExactMembership ==
    [][(checked' # checked) =>
        /\ checked'.result =
               (\E i \in 1..Len(manager.origins) : manager.origins[i] = checked'.origin)
        /\ (checked'.origin.rest # "" \/ checked'.origin.scheme # "https")
               => ~checked'.result
        /\ manager' = manager
        /\ (checked.called /\ checked'.origin = checked.origin)
               => checked'.result = checked.result
      ]_vars

C26_Witness ==
    /\ checked.called
    /\ checked.result
    /\ checked.origin = Origin("https", device_ip, "5000")

\* C27: a manager made while a custom origins list is in place uses that
\* list: verify_origin accepts its members and rejects every origin that is
\* only in the default list.
C27_CustomOriginsUsed ==
    (/\ manager.built
     /\ manager.class_origins = CustomOrigins
     /\ checked.called)
        => checked.result = (checked.origin \in Range(CustomOrigins))

\* the labels of a host that is a domain name; none for an IP literal
DomainLabels(host) ==
    CASE host = "localhost" -> <<"localhost">>
      [] host = "evil.com" -> <<"evil", "com">>
      [] host = "custom.domain" -> <<"custom", "domain">>
      [] OTHER -> << >>

\* rp is a domain name and host is rp or a subdomain of it
IsDomainSuffix(rp, host) ==
    LET r == DomainLabels(rp)
        h == DomainLabels(host)
    IN  /\ r # << >>
        /\ Len(r) <= Len(h)
        /\ SubSeq(h, Len(h) - Len(r) + 1, Len(h)) = r

\* C28: whatever the device-address lookup returns, the manager's origins
\* list is not empty and its relying-party id is a valid domain suffix of the
\* host of every origin in the list.
C28_RpIdCoversOrigins ==
    manager.built =>
        /\ Len(manager.origins) > 0
        /\ \A o \in Range(manager.origins) : IsDomainSuffix(manager.rp, o.host)

\* C29: a user's handle is drawn once and used again at later
\* registrations: all documents with the same username carry the same userId.
C29_HandleStable ==
    \A i, j \in 1..Len(userIds.stored) :
        db[i].username = db[j].username => userIds.stored[i] = userIds.stored[j]

\* C30: a second ceremony begun for the same user while the first is still
\* pending does not replace the pending state of the first, also when the
\* same client session begins both.
C30_PendingStateKept ==
    [][\A s \in DOMAIN session, u \in Users :
        (/\ last = NoAnswer
         /\ session[s].auth_state.kind = "dict"
         /\ session[s].username = u
         /\ authenticate_begin(s, u))
            => session'[s].auth_state = session[s].auth_state]_vars

\* C31: public-key round trip.  The key read back from the stored bytes of
\* an ES256 or RS256 key is that key: the same entries, held by the class of
\* the same algorithm.
C31_KeyRoundTrip ==
    cose.pc = "loaded" =>
        /\ cose.loaded.entries = cose.key.entries
        /\ cose.loaded.cls = cose.key.cls

C31_Witness ==
    /\ cose.pc = "loaded"
    /\ cose.key.cls = "RS256"
    /\ cose.key.entries[3][2] = BytesValue(FullCoordinate)
    /\ Len(cose.stored) > 32

\* C32: check_certificates returns the pair (certificate path, key path)
\* exactly when both files are in the certificate directory; when a file or
\* the directory is missing the process ends with exit status 1 and nothing
\* is returned.
C32_CertificatesChecked ==
    [][boot.pc = "main" =>
        IF /\ boot.dir
           /\ (device_ip \o ".pem") \in boot.files
           /\ (device_ip \o "-key.pem") \in boot.files
        THEN /\ boot'.pc = "certificates"
             /\ boot'.result = <<device_ip \o ".pem", device_ip \o "-key.pem">>
        ELSE /\ boot'.pc = "exit"
             /\ boot'.status = 1
             /\ boot'.result = << >>
      ]_vars

C32_Witness ==
    /\ boot.pc = "exit"
    /\ boot.status = 1
    /\ boot.port = ""
    /\ key_path(device_ip) \in boot.files
    /\ cert_path(device_ip) \notin boot.files

\* C38: the origin main() serves under (https, the device address, the port
\* it passes to the server) is one of the allowed origins.
C38_ServedOriginAllowed ==
    boot.port # "" => verify_origin(device_ip, Origin("https", device_ip, boot.port))

\* C33: a begin call, accepted or refused, leaves the credentials
\* collection as it was: the same documents with the same fields.
C33_BeginWritesNothing ==
    [][last'.op \in {"register_begin", "authenticate_begin"} => db' = db]_vars

C33_Witness ==
    /\ last.op = "register_begin"
    /\ last.body = "options"
    /\ Len(db) > 0

\* C34: the allowCredentials of the options of a successful
\* authenticate-begin for a user name are the credential ids of the documents
\* stored under that user name when it is called: all of them and no id of a
\* document of another user.
C34_AllowCredentialsOfUser ==
    [][\A s \in DOMAIN session, u \in Users :
        (/\ last = NoAnswer
         /\ authenticate_begin(s, u)
         /\ last'.body = "options")
            => LET allowed == public_key_credential_request_options(
                                  db, u, nextChal).allowCredentials
               IN  {allowed[i].id : i \in 1..Len(allowed)}
                     = {db[i].id : i \in {j \in 1..Len(db) : db[j].username = u}}
      ]_vars

C34_Witness ==
    /\ last.op = "authenticate_begin"
    /\ last.body = "options"
    /\ \E i, j \in 1..Len(db) :
        /\ db[i].username = session["s1"].username
        /\ db[j].username # session["s1"].username
        /\ db[j].id # db[i].id

\* C35: the challenge in the options a begin call returns to the client is
\* the challenge of the ceremony state it stores, in both ceremonies.
C35_ChallengeAgreement ==
    [][\A s \in DOMAIN session, u \in Users :
        last = NoAnswer =>
            /\ register_begin(s, u)
                 => register_begin_response(s, u).challenge
                        = session'[s].register_state.challenge
            /\ (authenticate_begin(s, u) /\ last'.body = "options")
                 => authenticate_begin_response(s, u).challenge
                        = session'[s].auth_state.challenge
      ]_vars

\* C36: /success renders a user name only after an authenticate-complete of
\* that session has succeeded: an authenticate-begin call does not change
\* what /success answers, and neither does an authenticate-complete that
\* fails.
C36_SuccessGated ==
    [][\A s \in DOMAIN session :
        \/ last'.op \notin {"authenticate_begin", "authenticate_complete"}
        \/ last'.op = "authenticate_complete" /\ last'.ceremony = "success"
        \/ success_response(s)' = success_response(s)
      ]_vars

\* C37: the rpId of the authenticate-begin options, the rp.id of the
\* register-begin options and the id of the relying party the server
\* verifies against are one value, whatever the device-address lookup
\* returns.
C37_RpIdConsistent ==
    (last.op = "authenticate_begin" /\ last.body = "options") =>
        \A s \in DOMAIN session :
            LET request == public_key_credential_request_options(
                               db, session[s].username, session[s].auth_state.challenge)
                creation == registration_options(device_ip, session[s].username, 0)
            IN  /\ request.rpId = manager.rp
                /\ creation.rp.id = manager.rp

====
